---- MODULE Spec2Model ----
(***************************************************************************)
(* A model of puppet_watcher.py: the text normaliser, the month resolver,  *)
(* the card parser parse_afisha, the seen-store (load_seen / save_seen)    *)
(* and the run that ties them together.                                    *)
(*                                                                         *)
(* Text is modelled character by character: a Python str is a sequence of  *)
(* one-code-point strings.  The module is ASCII only, so every Cyrillic    *)
(* letter is written as one fixed Latin letter (a bijection, so substring  *)
(* and equality relations between words are exactly those of the source):  *)
(*   a=а b=б v=в g=г d=д e=е i=и j=й k=к l=л m=м n=н o=о p=п r=р s=с t=т    *)
(*   u=у f=ф x=ь w=ю y=я z=з c=ч,  capitals likewise (N=Н, S=С, ...).      *)
(* URLs and class names are Latin in the source and are written as is.     *)
(* Code points without an ASCII form carry their name: "NBSP" is U+00A0,   *)
(* "EN" U+2002, "EM" U+2003, "THIN" U+2009, "TAB" U+0009.                  *)
(***************************************************************************)
EXTENDS Integers, Sequences, FiniteSets, TLC

VARIABLES
    pc,         \* position of the scenario being run
    text,       \* a str handed to _norm_space / _extract_day_and_month_from_text
    month,      \* the calendar month (1..12) whose name was put into text, 0 if none
    out1,       \* result of the first call
    out2,       \* result of the second call
    doc,        \* the parsed document: its cards and table rows, in document order
    now_year,   \* str(datetime.now().year) at run time
    results,    \* the list parse_afisha returns
    raised,     \* TRUE when the call under test ended in an exception
    loc,        \* SEEN_FILE, as its path components
    dir_exists, \* whether dirname(SEEN_FILE) exists on disk
    file,       \* contents of SEEN_FILE: Missing, Corrupt or a JSON array
    arg,        \* the set handed to save_seen
    sent,       \* messages handed to send_telegram so far, oldest first
    runs,       \* how many runs have fetched the page so far
    new_count,  \* number of new events computed by each such run, oldest first
    fails       \* how many runs ended at a fetch failure

vars == <<pc, text, month, out1, out2, doc, now_year, results, raised,
          loc, dir_exists, file, arg, sent, runs, new_count, fails>>

----------------------------------------------------------------------------
(* Python values *)

\* Python's None where a str is expected (no code point has this name).
None == <<"<None>">>

\* str(c) for a character string given as a sequence: strings up to length n.
Texts(A, n) == UNION {[1..k -> A] : k \in 0..n}

\* s[i:] of a Python str (1-based i here).
From(s, i) == SubSeq(s, i, Len(s))

\* sub in s, for Python strs
Contains(s, sub) ==
    \E i \in 1..(Len(s) - Len(sub) + 1) : SubSeq(s, i, i + Len(sub) - 1) = sub

\* s.startswith(p)
StartsWith(s, p) == Len(s) >= Len(p) /\ SubSeq(s, 1, Len(p)) = p

\* s.endswith(p)
EndsWith(s, p) == Len(s) >= Len(p) /\ SubSeq(s, Len(s) - Len(p) + 1, Len(s)) = p

Digits == {"0", "1", "2", "3", "4", "5", "6", "7", "8", "9"}

LowerLetters ==
    {"a", "b", "v", "g", "d", "e", "z", "i", "j", "k", "l", "m", "n", "o", "p",
     "r", "s", "t", "u", "f", "c", "x", "w", "y"}

UpperOf ==
    [c \in LowerLetters |->
        CASE c = "a" -> "A" [] c = "b" -> "B" [] c = "v" -> "V" [] c = "g" -> "G"
          [] c = "d" -> "D" [] c = "e" -> "E" [] c = "i" -> "I" [] c = "j" -> "J"
          [] c = "k" -> "K" [] c = "l" -> "L" [] c = "m" -> "M" [] c = "n" -> "N"
          [] c = "o" -> "O" [] c = "p" -> "P" [] c = "r" -> "R" [] c = "s" -> "S"
          [] c = "t" -> "T" [] c = "u" -> "U" [] c = "f" -> "F" [] c = "x" -> "X"
          [] c = "w" -> "W" [] c = "y" -> "Y" [] c = "z" -> "Z" [] c = "c" -> "C"]

UpperLetters == {UpperOf[c] : c \in LowerLetters}

\* str.lower(), one code point
LowerChar(c) ==
    IF c \in UpperLetters THEN CHOOSE l \in LowerLetters : UpperOf[l] = c ELSE c

\* str.lower()
Lower(s) == [i \in 1..Len(s) |-> LowerChar(s[i])]

\* str.upper()
Upper(s) == [i \in 1..Len(s) |-> IF s[i] \in LowerLetters THEN UpperOf[s[i]] ELSE s[i]]

\* the characters the regex class \s and str.strip() treat as whitespace
WhiteSpace == {" ", "TAB", "NBSP", "EN", "EM", "THIN"}

\* the regex class \d
IsDigit(c) == c \in Digits

\* the regex class \w
IsWord(c) == c \in Digits \cup LowerLetters \cup UpperLetters \cup {"_"}

----------------------------------------------------------------------------
(* _norm_space *)

\* the four str.replace calls
ReplaceSpaces(s) ==
    [i \in 1..Len(s) |-> IF s[i] \in {"NBSP", "EN", "EM", "THIN"} THEN " " ELSE s[i]]

RECURSIVE CollapseFrom(_, _)
\* re.sub(r"\s+", " ", s) from position i on: each maximal whitespace run
\* becomes one plain space
CollapseFrom(s, i) ==
    IF i > Len(s) THEN <<>>
    ELSE IF s[i] \in WhiteSpace
         THEN IF i > 1 /\ s[i - 1] \in WhiteSpace
              THEN CollapseFrom(s, i + 1)
              ELSE <<" ">> \o CollapseFrom(s, i + 1)
         ELSE <<s[i]>> \o CollapseFrom(s, i + 1)

RECURSIVE Strip(_)
\* str.strip()
Strip(s) ==
    IF s = <<>> THEN s
    ELSE IF Head(s) \in WhiteSpace THEN Strip(Tail(s))
    ELSE IF s[Len(s)] \in WhiteSpace THEN Strip(SubSeq(s, 1, Len(s) - 1))
    ELSE s

\* a plausible slip: the trailing .strip() left out
_norm_space_nostrip(s) ==
    IF s = None \/ s = <<>> THEN s ELSE CollapseFrom(ReplaceSpaces(s), 1)

_norm_space(s) ==
    IF s = None \/ s = <<>> THEN s
    ELSE Strip(CollapseFrom(ReplaceSpaces(s), 1))

----------------------------------------------------------------------------
(* MONTHS_RU and _extract_day_and_month_from_text *)

\* the table with one value mistyped (maj filed under "06")
MONTHS_RU_typo ==
    << <<<<"y", "n", "v", "a", "r", "y">>, <<"0", "1">>>>,  <<<<"y", "n", "v", "a", "r", "x">>, <<"0", "1">>>>,
       <<<<"f", "e", "v", "r", "a", "l", "y">>, <<"0", "2">>>>,  <<<<"f", "e", "v", "r", "a", "l", "x">>, <<"0", "2">>>>,
       <<<<"m", "a", "r", "t", "a">>, <<"0", "3">>>>,  <<<<"m", "a", "r", "t">>, <<"0", "3">>>>,
       <<<<"a", "p", "r", "e", "l", "y">>, <<"0", "4">>>>,  <<<<"a", "p", "r", "e", "l", "x">>, <<"0", "4">>>>,
       <<<<"m", "a", "y">>, <<"0", "5">>>>,  <<<<"m", "a", "j">>, <<"0", "6">>>>,
       <<<<"i", "w", "n", "y">>, <<"0", "6">>>>,  <<<<"i", "w", "n", "x">>, <<"0", "6">>>>,
       <<<<"i", "w", "l", "y">>, <<"0", "7">>>>,  <<<<"i", "w", "l", "x">>, <<"0", "7">>>>,
       <<<<"a", "v", "g", "u", "s", "t", "a">>, <<"0", "8">>>>,  <<<<"a", "v", "g", "u", "s", "t">>, <<"0", "8">>>>,
       <<<<"s", "e", "n", "t", "y", "b", "r", "y">>, <<"0", "9">>>>,  <<<<"s", "e", "n", "t", "y", "b", "r", "x">>, <<"0", "9">>>>,
       <<<<"o", "k", "t", "y", "b", "r", "y">>, <<"1", "0">>>>,  <<<<"o", "k", "t", "y", "b", "r", "x">>, <<"1", "0">>>>,
       <<<<"n", "o", "y", "b", "r", "y">>, <<"1", "1">>>>,  <<<<"n", "o", "y", "b", "r", "x">>, <<"1", "1">>>>,
       <<<<"d", "e", "k", "a", "b", "r", "y">>, <<"1", "2">>>>,  <<<<"d", "e", "k", "a", "b", "r", "x">>, <<"1", "2">>>> >>

\* the dict, as its items in insertion order: <<key, value>>
MONTHS_RU ==
    << <<<<"y", "n", "v", "a", "r", "y">>, <<"0", "1">>>>,  <<<<"y", "n", "v", "a", "r", "x">>, <<"0", "1">>>>,
       <<<<"f", "e", "v", "r", "a", "l", "y">>, <<"0", "2">>>>,  <<<<"f", "e", "v", "r", "a", "l", "x">>, <<"0", "2">>>>,
       <<<<"m", "a", "r", "t", "a">>, <<"0", "3">>>>,  <<<<"m", "a", "r", "t">>, <<"0", "3">>>>,
       <<<<"a", "p", "r", "e", "l", "y">>, <<"0", "4">>>>,  <<<<"a", "p", "r", "e", "l", "x">>, <<"0", "4">>>>,
       <<<<"m", "a", "y">>, <<"0", "5">>>>,  <<<<"m", "a", "j">>, <<"0", "5">>>>,
       <<<<"i", "w", "n", "y">>, <<"0", "6">>>>,  <<<<"i", "w", "n", "x">>, <<"0", "6">>>>,
       <<<<"i", "w", "l", "y">>, <<"0", "7">>>>,  <<<<"i", "w", "l", "x">>, <<"0", "7">>>>,
       <<<<"a", "v", "g", "u", "s", "t", "a">>, <<"0", "8">>>>,  <<<<"a", "v", "g", "u", "s", "t">>, <<"0", "8">>>>,
       <<<<"s", "e", "n", "t", "y", "b", "r", "y">>, <<"0", "9">>>>,  <<<<"s", "e", "n", "t", "y", "b", "r", "x">>, <<"0", "9">>>>,
       <<<<"o", "k", "t", "y", "b", "r", "y">>, <<"1", "0">>>>,  <<<<"o", "k", "t", "y", "b", "r", "x">>, <<"1", "0">>>>,
       <<<<"n", "o", "y", "b", "r", "y">>, <<"1", "1">>>>,  <<<<"n", "o", "y", "b", "r", "x">>, <<"1", "1">>>>,
       <<<<"d", "e", "k", "a", "b", "r", "y">>, <<"1", "2">>>>,  <<<<"d", "e", "k", "a", "b", "r", "x">>, <<"1", "2">>>> >>

\* MONTHS_RU.keys(), in iteration order
MonthKeys == [i \in 1..Len(MONTHS_RU) |-> MONTHS_RU[i][1]]

\* MONTHS_RU.get(w): None when w is no key
MonthsGet(w) ==
    IF \E i \in 1..Len(MONTHS_RU) : MONTHS_RU[i][1] = w
    THEN MONTHS_RU[CHOOSE i \in 1..Len(MONTHS_RU) : MONTHS_RU[i][1] = w][2]
    ELSE None

\* whether re's \b holds between t[i-1] and t[i]
WordBoundary(t, i) ==
    LET before == i > 1 /\ i - 1 <= Len(t) /\ IsWord(t[i - 1])
        after  == i >= 1 /\ i <= Len(t) /\ IsWord(t[i])
    IN  before # after

\* length of the match of \b(\d{1,2})\b starting at t[i], 0 when there is none
\* (greedy: two digits are tried before one)
DayMatchLen(t, i) ==
    IF ~(i <= Len(t) /\ IsDigit(t[i]) /\ WordBoundary(t, i)) THEN 0
    ELSE IF i + 1 <= Len(t) /\ IsDigit(t[i + 1]) /\ WordBoundary(t, i + 2) THEN 2
    ELSE IF WordBoundary(t, i + 1) THEN 1
    ELSE 0

\* the least member of a non-empty set of positions
First(hits) == CHOOSE h \in hits : \A g \in hits : h <= g

\* the text of the match of \b(\d{1,2})\b that starts at t[i]
DayAt(t, i) == SubSeq(t, i, i + DayMatchLen(t, i) - 1)

\* group(1) of the leftmost of the matches starting at the positions hits
DayAmong(t, hits) == IF hits = {} THEN None ELSE DayAt(t, First(hits))

\* re.search(r"\b(\d{1,2})\b", t): group(1) of the leftmost match, or None
DaySearch(t) == DayAmong(t, {i \in 1..Len(t) : DayMatchLen(t, i) > 0})

RECURSIVE ScanMonthWord(_, _)
\* the for loop over MONTHS_RU.keys(): the first key found in t, or None
ScanMonthWord(t, k) ==
    IF k > Len(MonthKeys) THEN None
    ELSE IF Contains(t, MonthKeys[k]) THEN MonthKeys[k]
    ELSE ScanMonthWord(t, k + 1)

\* the function's None result
NoDayMonth == [found |-> FALSE, day |-> None, month_word |-> None]

\* return (day, month_word) if day else None
DayMonthResult(day, month_word) ==
    IF day # None
    THEN [found |-> TRUE, day |-> day, month_word |-> month_word]
    ELSE NoDayMonth

\* the function from its local t on
DayMonthOf(t) == DayMonthResult(DaySearch(t), ScanMonthWord(t, 1))

_extract_day_and_month_from_text(s) == DayMonthOf(Lower(_norm_space(s)))

----------------------------------------------------------------------------
(* Scenarios for the text functions *)

\* n as a decimal digit
DigitOf(n) == <<"0", "1", "2", "3", "4", "5", "6", "7", "8", "9">>[n + 1]

\* n in 0..99 as two decimal digits
TwoDigits(n) == <<DigitOf(n \div 10), DigitOf(n % 10)>>

\* the variables a scenario does not use
IdleText  == text = <<>> /\ month = 0 /\ out1 = <<>> /\ out2 = <<>>
IdleParse == doc = <<>> /\ now_year = <<>> /\ results = <<>>
IdleStore == loc = <<>> /\ dir_exists = FALSE /\ file = <<>> /\ arg = {}
IdleRun   == sent = <<>> /\ runs = 0 /\ new_count = <<>> /\ fails = 0

\* longest str handed to _norm_space in the normaliser scenario
MaxNormLen == 4

\* code points of the normaliser scenario: a letter, and whitespace both in and
\* out of the list of the replace calls
NormAlphabet == {"a", " ", "TAB", "NBSP", "EN", "EM", "THIN"}

InitNorm ==
    /\ pc = "norm_in"
    /\ text \in Texts(NormAlphabet, MaxNormLen) \cup {None}
    /\ month = 0 /\ out1 = <<>> /\ out2 = <<>>
    /\ raised = FALSE
    /\ IdleParse /\ IdleStore /\ IdleRun

\* y = _norm_space(x)
NormOnce ==
    /\ pc = "norm_in"
    /\ out1' = _norm_space(text)
    /\ pc' = "norm_once"
    /\ UNCHANGED <<text, month, out2, doc, now_year, results, raised,
                   loc, dir_exists, file, arg, sent, runs, new_count, fails>>

\* z = _norm_space(y)
NormTwice ==
    /\ pc = "norm_once"
    /\ out2' = _norm_space(out1)
    /\ pc' = "norm_twice"
    /\ UNCHANGED <<text, month, out1, doc, now_year, results, raised,
                   loc, dir_exists, file, arg, sent, runs, new_count, fails>>

NextNorm == NormOnce \/ NormTwice

SpecNorm == InitNorm /\ [][NextNorm]_vars

\* the calendar's month names, <<genitive, nominative>>, January first
MonthNames ==
    << <<<<"y", "n", "v", "a", "r", "y">>, <<"y", "n", "v", "a", "r", "x">>>>,
       <<<<"f", "e", "v", "r", "a", "l", "y">>, <<"f", "e", "v", "r", "a", "l", "x">>>>,
       <<<<"m", "a", "r", "t", "a">>, <<"m", "a", "r", "t">>>>,
       <<<<"a", "p", "r", "e", "l", "y">>, <<"a", "p", "r", "e", "l", "x">>>>,
       <<<<"m", "a", "y">>, <<"m", "a", "j">>>>,
       <<<<"i", "w", "n", "y">>, <<"i", "w", "n", "x">>>>,
       <<<<"i", "w", "l", "y">>, <<"i", "w", "l", "x">>>>,
       <<<<"a", "v", "g", "u", "s", "t", "a">>, <<"a", "v", "g", "u", "s", "t">>>>,
       <<<<"s", "e", "n", "t", "y", "b", "r", "y">>, <<"s", "e", "n", "t", "y", "b", "r", "x">>>>,
       <<<<"o", "k", "t", "y", "b", "r", "y">>, <<"o", "k", "t", "y", "b", "r", "x">>>>,
       <<<<"n", "o", "y", "b", "r", "y">>, <<"n", "o", "y", "b", "r", "x">>>>,
       <<<<"d", "e", "k", "a", "b", "r", "y">>, <<"d", "e", "k", "a", "b", "r", "x">>>> >>

\* s.capitalize() for a lower-case word
Capitalize(s) == IF s = <<>> THEN s ELSE Upper(<<Head(s)>>) \o Tail(s)

\* a word in one of three letter cases
Cased(w, c) ==
    CASE c = "lower" -> w [] c = "Capital" -> Capitalize(w) [] c = "UPPER" -> Upper(w)

\* what precedes the month name in a day label: "15 ", "5" + NBSP, nothing
DayPrefixes == {<<"1", "5", " ">>, <<"5", "NBSP">>, <<>>}

\* what follows it: ", Sb", nothing
DaySuffixes == {<<",", " ", "S", "b">>, <<>>}

InitMonth ==
    /\ pc = "month_in"
    /\ \E m \in 1..12, f \in 1..2, c \in {"lower", "Capital", "UPPER"},
          p \in DayPrefixes, q \in DaySuffixes :
            /\ month = m
            /\ text = p \o Cased(MonthNames[m][f], c) \o q
    /\ out1 = <<>> /\ out2 = <<>>
    /\ raised = FALSE
    /\ IdleParse /\ IdleStore /\ IdleRun

\* out1 = _extract_day_and_month_from_text(text); out2 keeps the function's
\* local month_word, which the result drops when no day was found
ExtractDayMonth ==
    /\ pc = "month_in"
    /\ out1' = _extract_day_and_month_from_text(text)
    /\ out2' = ScanMonthWord(Lower(_norm_space(text)), 1)
    /\ pc' = "month_out"
    /\ UNCHANGED <<text, month, doc, now_year, results, raised,
                   loc, dir_exists, file, arg, sent, runs, new_count, fails>>

NextMonth == ExtractDayMonth

SpecMonth == InitMonth /\ [][NextMonth]_vars

----------------------------------------------------------------------------
(* C10, C9 *)

\* y holds no whitespace but single plain spaces, none of them first or last
SingleSpaced(y) ==
    /\ \A i \in 1..Len(y) : y[i] \in WhiteSpace => y[i] = " "
    /\ y # <<>> => y[1] # " " /\ y[Len(y)] # " "
    /\ \A i \in 1..(Len(y) - 1) : ~(y[i] = " " /\ y[i + 1] = " ")

\* C10: _norm_space is idempotent, returns an empty or absent input unchanged,
\* and its output holds no whitespace other than single plain spaces, none
\* leading, trailing or next to another.
C10_NormSpace ==
    /\ pc \in {"norm_once", "norm_twice"} =>
          /\ text \in {None, <<>>} => out1 = text
          /\ text # None => SingleSpaced(out1)
    /\ pc = "norm_twice" => out2 = out1

\* an input with a no-break and a thin space in one run, normalised twice
C10_Witness ==
    /\ pc = "norm_twice"
    /\ text = <<"NBSP", "a", "THIN", "NBSP">>
    /\ out1 = <<"a">>

\* "15 Noybry, Sb"
ExampleDayLabel == <<"1", "5", " ", "N", "o", "y", "b", "r", "y", ",", " ", "S", "b">>

\* C9: for a day label holding the name of exactly one month, in either form
\* and any letter case, the token the scan picks resolves to that month's
\* number, and so does every table token found in the text (the result does
\* not depend on the table's order); "15 Noybry, Sb" gives day "15", month "11".
C9_MonthToken ==
    pc = "month_out" =>
        LET t == Lower(_norm_space(text))
        IN  /\ out2 # None
            /\ MonthsGet(out2) = TwoDigits(month)
            /\ \A k \in 1..Len(MONTHS_RU) :
                   Contains(t, MONTHS_RU[k][1]) => MONTHS_RU[k][2] = TwoDigits(month)
            /\ out1.found => out1.month_word = out2
            /\ text = ExampleDayLabel =>
                   /\ out1.day = <<"1", "5">>
                   /\ MonthsGet(out1.month_word) = <<"1", "1">>

\* a label in which two table tokens occur (marta and mart), with a day
C9_Witness ==
    /\ pc = "month_out"
    /\ out1.found
    /\ month = 3
    /\ Cardinality({k \in 1..Len(MONTHS_RU) :
                       Contains(Lower(_norm_space(text)), MONTHS_RU[k][1])}) = 2

----------------------------------------------------------------------------
(* parse_afisha *)

\* AFISHA_URL (its default)
AFISHA_URL == <<"h", "t", "t", "p", "s", ":", "/", "/", "p", "u", "p", "p", "e", "t", "-", "m", "i", "n", "s", "k", ".", "b", "y", "/", "a", "f", "i", "s", "h", "a">>

\* 0 for an empty set of positions, else its least member
FirstOrZero(hits) == IF hits = {} THEN 0 ELSE First(hits)

\* index of the first occurrence of c in s at or after i, 0 when there is none
IndexFrom(s, c, i) == FirstOrZero({k \in i..Len(s) : s[k] = c})

\* rest up to position k - 1, all of it when k = 0
Before(rest, k) == IF k = 0 THEN rest ELSE SubSeq(rest, 1, k - 1)

\* the authority of a URL whose text after "//" is rest: up to the first of / ? #
Netloc(rest) ==
    Before(rest, FirstOrZero({k \in 1..Len(rest) : rest[k] \in {"/", "?", "#"}}))

\* urlsplit's check of the authority: an unmatched bracket is a ValueError
BadNetloc(n) == (Contains(n, <<"[">>) /\ ~Contains(n, <<"]">>))
                \/ (Contains(n, <<"]">>) /\ ~Contains(n, <<"[">>))

\* u from the character after its first "//" on
AfterSlashes(u) == From(u, IndexFrom(u, "/", 1) + 2)

\* scheme://authority of an absolute http(s) URL
Origin(u) == SubSeq(u, 1, IndexFrom(u, "/", 1) + 1) \o Netloc(AfterSlashes(u))

\* urllib.parse.urljoin(base, url) for a base ending in "/" and a reference
\* without dot segments, query or parameters: [raised, url]
urljoin(base, url) ==
    IF url = <<>> THEN [raised |-> FALSE, url |-> base]
    ELSE IF StartsWith(url, <<"h", "t", "t", "p", ":", "/", "/">>) \/ StartsWith(url, <<"h", "t", "t", "p", "s", ":", "/", "/">>)
    THEN IF BadNetloc(Netloc(AfterSlashes(url)))
         THEN [raised |-> TRUE, url |-> None]
         ELSE [raised |-> FALSE, url |-> url]
    ELSE IF StartsWith(url, <<"/", "/">>)
    THEN IF BadNetloc(Netloc(From(url, 3)))
         THEN [raised |-> TRUE, url |-> None]
         ELSE [raised |-> FALSE,
               url |-> SubSeq(base, 1, IndexFrom(base, ":", 1)) \o url]
    ELSE IF StartsWith(url, <<"/">>)
    THEN [raised |-> FALSE, url |-> Origin(base) \o url]
    ELSE [raised |-> FALSE, url |-> base \o url]

RECURSIVE JoinSpace(_)
\* " ".join(classes)
JoinSpace(classes) ==
    IF classes = <<>> THEN <<>>
    ELSE IF Len(classes) = 1 THEN classes[1]
    ELSE classes[1] \o <<" ">> \o JoinSpace(Tail(classes))

\* whether item_mounth-(\d{4})-(\d{2}) matches s at position i
BucketAt(s, i) ==
    /\ i + 18 <= Len(s)
    /\ SubSeq(s, i, i + 11) = <<"i", "t", "e", "m", "_", "m", "o", "u", "n", "t", "h", "-">>
    /\ \A k \in (i + 12)..(i + 15) : IsDigit(s[k])
    /\ s[i + 16] = "-"
    /\ IsDigit(s[i + 17]) /\ IsDigit(s[i + 18])

\* no match
NoBucket == [found |-> FALSE, year |-> None, month |-> None]

\* the groups of the match that starts at s[i]
BucketGroups(s, i) ==
    [found |-> TRUE, year |-> SubSeq(s, i + 12, i + 15), month |-> SubSeq(s, i + 17, i + 18)]

\* the leftmost of the matches starting at the positions hits
BucketAmong(s, hits) == IF hits = {} THEN NoBucket ELSE BucketGroups(s, First(hits))

\* re.search(r"item_mounth-(\d{4})-(\d{2})", s): [found, year, month] of the
\* leftmost match
BucketSearch(s) == BucketAmong(s, {i \in 1..Len(s) : BucketAt(s, i)})

\* m when it is a match, else what the rest of the walk finds
MatchOr(m, rest) == IF m.found THEN m ELSE rest

RECURSIVE YearMonthFarthest(_, _)
\* a plausible slip: the walk runs from the root down, the outermost match wins
YearMonthFarthest(path, k) ==
    IF k < 1 THEN NoBucket
    ELSE MatchOr(BucketSearch(JoinSpace(path[k])), YearMonthFarthest(path, k - 1))

RECURSIVE YearMonthFrom(_, _)
\* the while loop: the node itself, then each parent in turn
YearMonthFrom(path, k) ==
    IF k > Len(path) THEN NoBucket
    ELSE MatchOr(BucketSearch(JoinSpace(path[k])), YearMonthFrom(path, k + 1))

\* the walk mistaken for one that returns the outermost bucket
_extract_year_month_outermost(path) == YearMonthFarthest(path, Len(path))

\* path: the class lists of the node and of its ancestors, nearest first
_extract_year_month_from_container(path) == YearMonthFrom(path, 1)

\* soup.select(".afisha_listcontainer .afisha_item"): a node of class
\* afisha_item below a node of class afisha_listcontainer
IsSelectedCard(n) ==
    /\ n.kind = "card"
    /\ \E c \in 1..Len(n.path[1]) : n.path[1][c] = <<"a", "f", "i", "s", "h", "a", "_", "i", "t", "e", "m">>
    /\ \E k \in 2..Len(n.path) :
          \E c \in 1..Len(n.path[k]) : n.path[k][c] = <<"a", "f", "i", "s", "h", "a", "_", "l", "i", "s", "t", "c", "o", "n", "t", "a", "i", "n", "e", "r">>

\* f"{date_str} {time_text} | {title} | {url_abs}"
item_id(date_str, time_text, title, url_abs) ==
    date_str \o <<" ">> \o time_text \o <<" ", "|", " ">>
             \o title \o <<" ", "|", " ">> \o url_abs

\* lines 209-225: the link made absolute and the dict built
CardEvent(date_str, time_text, title, joined) ==
    IF joined.raised THEN [kind |-> "raise"]
    ELSE [kind  |-> "event",
          id    |-> item_id(date_str, time_text, title, joined.url),
          date  |-> date_str,
          time  |-> time_text,
          title |-> title,
          url   |-> joined.url]

\* AFISHA_URL if AFISHA_URL.endswith("/") else AFISHA_URL + "/"
BaseUrl == IF EndsWith(AFISHA_URL, <<"/">>) THEN AFISHA_URL ELSE AFISHA_URL \o <<"/">>

\* lines 198-203: the completeness test and date_str
CardDated(item, year, month_num, day_num) ==
    IF month_num = None THEN [kind |-> "skip"]
    ELSE CardEvent(day_num \o <<".">> \o month_num \o <<".">> \o year,
                   _norm_space(item.time), _norm_space(item.title),
                   urljoin(BaseUrl, Strip(item.href)))

\* lines 173-196: month_num, year and day_num from ym and day_month
CardParsed(item, year_now, ym, day_month) ==
    IF ~day_month.found THEN [kind |-> "skip"]
    ELSE CardDated(item,
                   IF ym.found THEN ym.year ELSE year_now,
                   IF ~ym.found /\ day_month.month_word # None
                   THEN MonthsGet(Lower(day_month.month_word))
                   ELSE ym.month,
                   IF Len(day_month.day) = 1
                   THEN <<"0">> \o day_month.day
                   ELSE day_month.day)

\* the body of the for loop for one selected card: "skip" (continue),
\* "event" (results.append) or "raise" (an exception leaves the function).
\* The tests "not info" and "not (p_day and p_time and p_title and a_link)"
\* are of bs4 Tags, which are true whatever they hold: only a missing node
\* (None) fails them.
CardOutcome(item, year_now) ==
    IF ~item.info THEN [kind |-> "skip"]
    ELSE IF item.day = None \/ item.time = None \/ item.title = None \/ item.href = None
    THEN [kind |-> "skip"]
    ELSE CardParsed(item, year_now,
                    _extract_year_month_from_container(item.path),
                    _extract_day_and_month_from_text(item.day))

\* the dict appended to results
EventOf(o) ==
    [id |-> o.id, date |-> o.date, time |-> o.time, title |-> o.title, url |-> o.url]

\* what the loop does with node n: nothing when the selector does not
\* return it, else the body's outcome
NodeOutcome(n, year_now) ==
    IF IsSelectedCard(n) THEN CardOutcome(n, year_now) ELSE [kind |-> "skip"]

\* whether an outcome is a results.append
IsEvent(o) == o.kind = "event"

\* the dicts of the appending iterations, in order
EventsOf(appended) == [k \in 1..Len(appended) |-> EventOf(appended[k])]

\* the loop over the outcomes of its iterations: it ends at the first that
\* raises, else every appended dict is returned in the order of the items
LoopResult(outcomes) ==
    IF \E i \in 1..Len(outcomes) : outcomes[i].kind = "raise"
    THEN [raised |-> TRUE, results |-> <<>>]
    ELSE [raised |-> FALSE, results |-> EventsOf(SelectSeq(outcomes, IsEvent))]

\* parse_afisha(html), html given as its parsed nodes
parse_afisha(d, year_now) ==
    LoopResult([i \in 1..Len(d) |-> NodeOutcome(d[i], year_now)])

----------------------------------------------------------------------------
(* Documents *)

\* A node of the document, as the fields the selectors and get_text read:
\*   kind   "card" (a node of class afisha_item) or "row" (a table row)
\*   info   whether the card holds a .afisha-info node
\*   day, time, title   get_text(" ", strip=True) of .afisha-day, .afisha-time,
\*          .afisha-title; of a row, title is the text of its ticket link;
\*          None when the node is missing
\*   href   the href of a.afisha_item-hover[href] (of a row: of its link to
\*          the ticket vendor); None when there is no such link
\*   path   the class lists of the node and of its ancestors, nearest first
\*   cell   the text of a row's first cell; None when the row has no cells
InList == <<<<"a", "f", "i", "s", "h", "a", "_", "l", "i", "s", "t", "c", "o", "n", "t", "a", "i", "n", "e", "r">>>>

\* inside the list, no month bucket
PathNoBucket == << <<<<"a", "f", "i", "s", "h", "a", "_", "i", "t", "e", "m">>>>, InList >>

\* inside the bucket of November 2025
PathBucket == << <<<<"a", "f", "i", "s", "h", "a", "_", "i", "t", "e", "m">>>>, <<<<"a", "f", "i", "s", "h", "a", "_", "l", "i", "s", "t", "c", "o", "n", "t", "a", "i", "n", "e", "r">>, <<"i", "t", "e", "m", "_", "m", "o", "u", "n", "t", "h", "-", "2", "0", "2", "5", "-", "1", "1">>>> >>

\* a bucket of December 2025 nested in one of January 2026
PathNested ==
    << <<<<"a", "f", "i", "s", "h", "a", "_", "i", "t", "e", "m">>>>, <<<<"i", "t", "e", "m", "_", "m", "o", "u", "n", "t", "h", "-", "2", "0", "2", "5", "-", "1", "2">>>>,
       <<<<"a", "f", "i", "s", "h", "a", "_", "l", "i", "s", "t", "c", "o", "n", "t", "a", "i", "n", "e", "r">>, <<"i", "t", "e", "m", "_", "m", "o", "u", "n", "t", "h", "-", "2", "0", "2", "6", "-", "0", "1">>>> >>

\* a class that only resembles a bucket (two-digit year)
PathMalformed == << <<<<"a", "f", "i", "s", "h", "a", "_", "i", "t", "e", "m">>>>, <<<<"a", "f", "i", "s", "h", "a", "_", "l", "i", "s", "t", "c", "o", "n", "t", "a", "i", "n", "e", "r">>, <<"i", "t", "e", "m", "_", "m", "o", "u", "n", "t", "h", "-", "2", "5", "-", "1", "1">>>> >>

\* a card outside any .afisha_listcontainer
PathOutside == << <<<<"a", "f", "i", "s", "h", "a", "_", "i", "t", "e", "m">>>>, <<<<"i", "t", "e", "m", "_", "m", "o", "u", "n", "t", "h", "-", "2", "0", "2", "5", "-", "1", "1">>>> >>

Paths == {PathNoBucket, PathBucket, PathNested, PathMalformed}

\* "5 Noybry, Sr", "15 Marta, Sb", "5, Sr" (no month word), "Sr" (no day)
DayTexts == {<<"5", " ", "N", "o", "y", "b", "r", "y", ",", " ", "S", "r">>, <<"1", "5", " ", "M", "a", "r", "t", "a", ",", " ", "S", "b">>, <<"5", ",", " ", "S", "r">>, <<"S", "r">>}

HrefRelative == <<"/", "a", "f", "i", "s", "h", "a", "/", "b", "u", "r", "a", "t", "i", "n", "o", "#", "t", "i", "c", "k", "e", "t", "s">>
HrefAbsolute == <<"h", "t", "t", "p", "s", ":", "/", "/", "t", "c", "e", ".", "b", "y", "/", "s", "h", "o", "w", "/", "1", "2", "3">>
HrefBadHost  == <<"h", "t", "t", "p", ":", "/", "/", "[">>

BaseCard ==
    [kind |-> "card", info |-> TRUE, day |-> <<"5", " ", "N", "o", "y", "b", "r", "y", ",", " ", "S", "r">>, time |-> <<"1", "1", ":", "0", "0">>,
     title |-> <<"B", "u", "r", "a", "t", "i", "n", "o">>, href |-> HrefRelative, path |-> PathBucket,
     cell |-> None]

\* the row of the tabular example: "11.11.2025  19:00", "Zapiski wnogo vraca"
BaseRow ==
    [kind |-> "row", info |-> FALSE, day |-> None, time |-> None,
     title |-> <<"Z", "a", "p", "i", "s", "k", "i", " ", "w", "n", "o", "g", "o", " ", "v", "r", "a", "c", "a">>, href |-> HrefAbsolute,
     path |-> << <<>>, <<>> >>, cell |-> <<"1", "1", ".", "1", "1", ".", "2", "0", "2", "5", " ", " ", "1", "9", ":", "0", "0">>]

Cards ==
    {[BaseCard EXCEPT !.day = d, !.path = p] : d \in DayTexts, p \in Paths}
    \cup {[BaseCard EXCEPT !.time = t] : t \in {<<>>, <<"1", "9", ":", "0", "0", " ", "NBSP", "S", "b">>}}
    \cup {[BaseCard EXCEPT !.href = h] : h \in {HrefAbsolute, HrefBadHost}}
    \cup {[BaseCard EXCEPT !.info = FALSE], [BaseCard EXCEPT !.day = None],
          [BaseCard EXCEPT !.time = None], [BaseCard EXCEPT !.title = None],
          [BaseCard EXCEPT !.href = None], [BaseCard EXCEPT !.path = PathOutside]}

Rows ==
    {BaseRow, [BaseRow EXCEPT !.cell = None], [BaseRow EXCEPT !.href = None],
     [BaseRow EXCEPT !.cell = <<"D", "a", "t", "a">>]}

Nodes == Cards \cup Rows

\* most nodes in a document
MaxCards == 2

\* str(datetime.now().year) over the runs considered
CurrentYears == {<<"2", "0", "2", "5">>, <<"2", "0", "2", "6">>}

InitParse ==
    /\ pc = "parse_in"
    /\ doc \in Texts(Nodes, MaxCards)
    /\ now_year \in CurrentYears
    /\ results = <<>>
    /\ raised = FALSE
    /\ IdleText /\ IdleStore /\ IdleRun

\* the call's outcome r stored
Returned(r) == results' = r.results /\ raised' = r.raised

\* results = parse_afisha(html)
Parse ==
    /\ pc = "parse_in"
    /\ Returned(parse_afisha(doc, now_year))
    /\ pc' = "parse_out"
    /\ UNCHANGED <<text, month, out1, out2, doc, now_year,
                   loc, dir_exists, file, arg, sent, runs, new_count, fails>>

NextParse == Parse

SpecParse == InitParse /\ [][NextParse]_vars

RECURSIVE JoinWith(_, _)
\* sep.join(words)
JoinWith(words, sep) ==
    IF words = <<>> THEN <<>>
    ELSE IF Len(words) = 1 THEN words[1]
    ELSE words[1] \o sep \o JoinWith(Tail(words), sep)

\* most words in a time or title label of the key scenario
MaxKeyWords == 2

\* label texts of the key scenario: the words "a" and "|", NBSP between them
KeyTexts == {JoinWith(ws, <<"NBSP">>) : ws \in Texts({<<"a">>, <<"|">>}, MaxKeyWords)}

\* two cards of one bucket and day, their time, title and link varying
InitKey ==
    /\ pc = "parse_in"
    /\ \E t1 \in KeyTexts, l1 \in KeyTexts, t2 \in KeyTexts, l2 \in KeyTexts,
          h2 \in {HrefRelative, HrefAbsolute} :
            doc = << [BaseCard EXCEPT !.time = t1, !.title = l1],
                     [BaseCard EXCEPT !.time = t2, !.title = l2, !.href = h2] >>
    /\ now_year \in {<<"2", "0", "2", "5">>}
    /\ results = <<>>
    /\ raised = FALSE
    /\ IdleText /\ IdleStore /\ IdleRun

SpecKey == InitKey /\ [][NextParse]_vars

----------------------------------------------------------------------------
(* C2 - C6 *)

\* whether parse_afisha appends an event for node i of d
AcceptsAt(d, i, year_now) ==
    IsSelectedCard(d[i]) /\ CardOutcome(d[i], year_now).kind = "event"

\* the positions in d of the cards parse_afisha accepts, in order
Accepted(d, year_now) ==
    SelectSeq([i \in 1..Len(d) |-> i], LAMBDA i : AcceptsAt(d, i, year_now))

\* day left-padded to two digits
Pad2(day) == IF Len(day) = 1 THEN <<"0">> \o day ELSE day

\* the positions on the path card -> ancestors whose class holds item_mounth-YYYY-MM
BucketsOn(path) == {k \in 1..Len(path) : BucketSearch(JoinSpace(path[k])).found}

\* the date the claim gives an accepted card: year and month of the nearest
\* bucket when there is one, else the month of the word in the day label and
\* the current year
ExpectedDate(card, year_now) ==
    LET t    == Lower(_norm_space(card.day))
        day  == Pad2(DaySearch(t))
        near == BucketSearch(JoinSpace(card.path[First(BucketsOn(card.path))]))
    IN  IF BucketsOn(card.path) # {}
        THEN day \o <<".">> \o near.month \o <<".">> \o near.year
        ELSE day \o <<".">> \o MonthsGet(ScanMonthWord(t, 1)) \o <<".">> \o year_now

\* C2: the date of every accepted card is pad2(day).MM.YYYY with (YYYY, MM)
\* from the nearest node on the path card -> ancestors whose class holds
\* item_mounth-YYYY-MM, whatever month word the day label holds; only without
\* such a node are the month of the word and the current year used.  The card
\* of bucket item_mounth-2025-11 labelled "5 Noybry, Sr" is dated 05.11.2025.
C2_Date ==
    (pc = "parse_out" /\ ~raised) =>
        LET acc == Accepted(doc, now_year)
        IN  /\ Len(results) = Len(acc)
            /\ \A k \in 1..Len(acc) :
                  /\ results[k].date = ExpectedDate(doc[acc[k]], now_year)
                  /\ doc[acc[k]] = BaseCard => results[k].date = <<"0", "5", ".", "1", "1", ".", "2", "0", "2", "5">>

\* a card labelled "5 Noybry, Sr" in the December bucket nested in the January
\* one: dated by the nearest bucket, against the word and the outer bucket
C2_Witness ==
    /\ pc = "parse_out" /\ ~raised
    /\ \E k \in 1..Len(results) :
          /\ k <= Len(Accepted(doc, now_year))
          /\ doc[Accepted(doc, now_year)[k]].path = PathNested
          /\ doc[Accepted(doc, now_year)[k]].day = <<"5", " ", "N", "o", "y", "b", "r", "y", ",", " ", "S", "r">>
          /\ results[k].date = <<"0", "5", ".", "1", "2", ".", "2", "0", "2", "5">>

\* C3: parse_afisha returns no event whose time is the empty string.
C3_NoEmptyTime ==
    pc = "parse_out" => \A k \in 1..Len(results) : results[k].time # <<>>

\* a card the claim C4 calls bad: an element missing, no day number in the
\* day label, or neither a bucket on its path nor a month word in the label
IsBadCard(n) ==
    /\ IsSelectedCard(n)
    /\ \/ ~n.info
       \/ n.day = None \/ n.time = None \/ n.title = None \/ n.href = None
       \/ DaySearch(Lower(_norm_space(n.day))) = None
       \/ /\ BucketsOn(n.path) = {}
          /\ ScanMonthWord(Lower(_norm_space(n.day)), 1) = None

\* d without its node i
Remove(d, i) == SubSeq(d, 1, i - 1) \o SubSeq(d, i + 1, Len(d))

\* C4: parse_afisha raises nothing on any document; a bad card yields no
\* event, and the events of the other cards are those of the document
\* without it, in the same order.
C4_BadCardSkipped ==
    pc = "parse_out" =>
        /\ ~raised
        /\ \A i \in 1..Len(doc) :
              IsBadCard(doc[i]) =>
                  /\ NodeOutcome(doc[i], now_year).kind = "skip"
                  /\ results = parse_afisha(Remove(doc, i), now_year).results

\* the four fields of two events agree
SameFields(e, f) ==
    e.date = f.date /\ e.time = f.time /\ e.title = f.title /\ e.url = f.url

\* C5 as stated: two events of parse_afisha have the same id exactly when
\* their date, time, title and url are equal, whatever the texts hold.
C5_KeyInjective ==
    pc = "parse_out" =>
        \A i, j \in 1..Len(results) :
            (results[i].id = results[j].id) <=> SameFields(results[i], results[j])

\* neither the time nor the title of e holds the character "|"
PipeFree(e) == ~Contains(e.time, <<"|">>) /\ ~Contains(e.title, <<"|">>)

\* What does hold of the key (a lemma beside C5): two events of parse_afisha
\* whose times and titles hold no "|" have the same id exactly when their
\* date, time, title and url are equal.
C5_KeyInjectiveNoPipe ==
    pc = "parse_out" =>
        \A i, j \in 1..Len(results) :
            (PipeFree(results[i]) /\ PipeFree(results[j])) =>
                ((results[i].id = results[j].id) <=> SameFields(results[i], results[j]))

\* the lemma's case: two events without "|" that differ in the title alone,
\* their times holding a space
C5_NoPipeCase ==
    /\ pc = "parse_out"
    /\ Len(results) = 2
    /\ PipeFree(results[1]) /\ PipeFree(results[2])
    /\ results[1].time = <<"a", " ", "a">> /\ results[2].time = <<"a", " ", "a">>
    /\ results[1].url = results[2].url
    /\ results[1].title = <<"a">> /\ results[2].title = <<"a", " ", "a">>
    /\ results[1].id # results[2].id

\* s has the form DD.MM.YYYY HH:MM
IsDateTime(s) ==
    /\ Len(s) = 16
    /\ \A k \in {1, 2, 4, 5, 7, 8, 9, 10, 12, 13, 15, 16} : IsDigit(s[k])
    /\ s[3] = "." /\ s[6] = "." /\ s[11] = " " /\ s[14] = ":"

\* a table row the claim C6 says yields an event
IsEventRow(n) ==
    /\ n.kind = "row" /\ n.cell # None /\ n.href # None
    /\ IsDateTime(_norm_space(n.cell))

\* e is the event the claim C6 gives row n
IsRowEvent(e, n) ==
    /\ e.date = SubSeq(_norm_space(n.cell), 1, 10)
    /\ e.time = SubSeq(_norm_space(n.cell), 12, 16)
    /\ e.title = n.title
    /\ e.url = n.href

\* C6: every table row with a link to the ticket vendor and a first cell of
\* the form DD.MM.YYYY HH:MM yields an event with that date and time, the
\* link's text as title and its href as url; other rows yield none.
C6_TabularRows ==
    (pc = "parse_out" /\ ~raised) =>
        /\ \A i \in 1..Len(doc) :
              IsEventRow(doc[i]) =>
                  \E k \in 1..Len(results) : IsRowEvent(results[k], doc[i])
        /\ Len(results) = Len(Accepted(doc, now_year))
                          + Cardinality({i \in 1..Len(doc) : IsEventRow(doc[i])})

----------------------------------------------------------------------------
(* load_seen, save_seen *)

\* the elements of a sequence
Range(s) == {s[i] : i \in DOMAIN s}

\* SEEN_FILE on disk: absent, present but not readable as JSON, or a JSON
\* array with the given entries
Missing == [state |-> "missing", entries |-> <<>>]
Corrupt == [state |-> "corrupt", entries |-> <<>>]
JsonArray(entries) == [state |-> "json", entries |-> entries]

\* os.path.dirname of a path given as its components: "" when there is one
dirname(path) == SubSeq(path, 1, Len(path) - 1)

\* the orders in which list(seen) may enumerate a set
Orderings(seen) == {s \in [1..Cardinality(seen) -> seen] : Range(s) = seen}

\* load_seen() as the file stands: the test of os.path.exists, then the try
\* block, whose except Exception branch returns the empty set
load_seen(f) ==
    IF f.state = "missing" THEN [raised |-> FALSE, seen |-> {}]
    ELSE IF f.state = "corrupt" THEN [raised |-> FALSE, seen |-> {}]
    ELSE [raised |-> FALSE, seen |-> Range(f.entries)]

\* a plausible slip: the dump loses the first element of the list
save_seen_drop(path, dir, f, seen, order) ==
    IF dirname(path) = <<>>
    THEN [raised |-> TRUE, dir_exists |-> dir, file |-> f]
    ELSE [raised |-> FALSE, dir_exists |-> TRUE,
          file |-> JsonArray(IF order = <<>> THEN order ELSE Tail(order))]

\* save_seen(seen) with SEEN_FILE = path, order being the order of list(seen):
\* os.makedirs("") raises FileNotFoundError before the file is opened;
\* otherwise the directory exists afterwards and the file holds the list
save_seen(path, dir, f, seen, order) ==
    IF dirname(path) = <<>>
    THEN [raised |-> TRUE, dir_exists |-> dir, file |-> f]
    ELSE [raised |-> FALSE, dir_exists |-> TRUE, file |-> JsonArray(order)]

\* SEEN_FILE as configured: a bare file name, and the default data/seen.json
Locations == {<<"seen.json">>, <<"data", "seen.json">>}

\* identity keys held by the store in the store scenario
StoreKeys == {<<"k", "1">>, <<"k", "2">>}

\* most entries of the JSON array on disk at the start
MaxEntries == 2

\* the states of the disk: a file needs its directory, and the directory of a
\* bare file name is the working directory
DiskOk(path, dir, f) ==
    /\ dirname(path) = <<>> => dir
    /\ ~dir => f = Missing

InitStore ==
    /\ pc = "store_in"
    /\ loc \in Locations
    /\ dir_exists \in BOOLEAN
    /\ file \in {Missing, Corrupt} \cup {JsonArray(es) : es \in Texts(StoreKeys, MaxEntries)}
    /\ DiskOk(loc, dir_exists, file)
    /\ arg \in SUBSET StoreKeys
    /\ out1 = {} /\ out2 = {}
    /\ text = <<>> /\ month = 0
    /\ raised = FALSE
    /\ IdleParse /\ IdleRun

\* the outcome r of a save_seen call stored
Saved(r) == raised' = r.raised /\ dir_exists' = r.dir_exists /\ file' = r.file

\* out1 = load_seen()
LoadSeen ==
    /\ pc = "store_in"
    /\ out1' = load_seen(file).seen
    /\ raised' = load_seen(file).raised
    /\ pc' = "loaded"
    /\ UNCHANGED <<text, month, out2, doc, now_year, results,
                   loc, dir_exists, file, arg, sent, runs, new_count, fails>>

\* save_seen(out1), after out1 = load_seen()
SaveLoaded ==
    /\ pc = "loaded"
    /\ \E order \in Orderings(out1) : Saved(save_seen(loc, dir_exists, file, out1, order))
    /\ pc' = "saved_loaded"
    /\ UNCHANGED <<text, month, out1, out2, doc, now_year, results,
                   loc, arg, sent, runs, new_count, fails>>

\* save_seen(arg) on the store as found
SaveArg ==
    /\ pc = "store_in"
    /\ \E order \in Orderings(arg) : Saved(save_seen(loc, dir_exists, file, arg, order))
    /\ pc' = "saved_arg"
    /\ UNCHANGED <<text, month, out1, out2, doc, now_year, results,
                   loc, arg, sent, runs, new_count, fails>>

\* out2 = load_seen(), after either save
LoadAgain ==
    /\ pc \in {"saved_loaded", "saved_arg"}
    /\ out2' = load_seen(file).seen
    /\ raised' = load_seen(file).raised
    /\ pc' = IF pc = "saved_loaded" THEN "reloaded" ELSE "reread"
    /\ UNCHANGED <<text, month, out1, doc, now_year, results,
                   loc, dir_exists, file, arg, sent, runs, new_count, fails>>

NextStore == LoadSeen \/ SaveLoaded \/ SaveArg \/ LoadAgain

SpecStore == InitStore /\ [][NextStore]_vars

----------------------------------------------------------------------------
(* C7, C8 *)

\* C7: save_seen(S) succeeds wherever SEEN_FILE points, with or without the
\* file, its directory or any directory component, and load_seen() then
\* returns exactly S.
C7_SaveThenLoad ==
    /\ pc = "saved_arg" => ~raised
    /\ pc = "reread" => out2 = arg

\* C8: load_seen() never raises, and from any state of the store (missing,
\* unreadable, or a JSON array that may repeat entries) save_seen(load_seen())
\* leaves the membership load_seen() returns as it was.
C8_RoundTrip ==
    /\ pc \in {"loaded", "reloaded"} => ~raised
    /\ pc = "reloaded" => out2 = out1

\* the round trip on a store that held k1, rewritten by the save
C8_Witness ==
    /\ pc = "reloaded"
    /\ out1 = {<<"k", "1">>}
    /\ file = JsonArray(<<<<"k", "1">>>>)
    /\ dirname(loc) # <<>>

----------------------------------------------------------------------------
(* The run: fetch, parse, diff, notify, persist *)

\* the ids of a list of events
Ids(events) == [k \in 1..Len(events) |-> events[k].id]

\* the events whose id is not in seen, in their order
NewEvents(events, seen) == SelectSeq(events, LAMBDA e : e.id \notin seen)

\* most runs that fetch the page
MaxRuns == 3

\* most runs that end at a fetch failure
MaxFails == 1

\* the nodes of the pages of the run scenario: two cards that parse and one
\* that is skipped
RunNodes ==
    {BaseCard, [BaseCard EXCEPT !.time = <<"1", "9", ":", "0", "0", " ", "NBSP", "S", "b">>], [BaseCard EXCEPT !.info = FALSE]}

\* the store is empty at the start: no file yet, with or without its directory
InitRun ==
    /\ pc = "run"
    /\ doc \in Texts(RunNodes, MaxCards)
    /\ now_year \in {<<"2", "0", "2", "5">>}
    /\ results = <<>>
    /\ loc \in Locations
    /\ dir_exists \in BOOLEAN
    /\ file = Missing
    /\ DiskOk(loc, dir_exists, file)
    /\ arg = {}
    /\ sent = <<>> /\ runs = 0 /\ new_count = <<>> /\ fails = 0
    /\ raised = FALSE
    /\ IdleText

\* the end of a run that found the events new: one message each, every id
\* marked seen, and the store written when there was any
Notified(new, seen) ==
    /\ sent' = sent \o Ids(new)
    /\ new_count' = Append(new_count, Len(new))
    /\ arg' = seen \cup Range(Ids(new))
    /\ IF new = <<>>
       THEN raised' = FALSE /\ UNCHANGED <<dir_exists, file>>
       ELSE \E order \in Orderings(seen \cup Range(Ids(new))) :
               Saved(save_seen(loc, dir_exists, file, seen \cup Range(Ids(new)), order))

\* a run on the events parsed from the page
RunOn(parsed) ==
    IF parsed.raised
    THEN /\ raised' = TRUE
         /\ new_count' = Append(new_count, 0)
         /\ UNCHANGED <<results, sent, arg, dir_exists, file>>
    ELSE IF parsed.results = <<>>
    THEN /\ raised' = FALSE
         /\ new_count' = Append(new_count, 0)
         /\ results' = parsed.results
         /\ UNCHANGED <<sent, arg, dir_exists, file>>
    ELSE /\ results' = parsed.results
         /\ Notified(NewEvents(parsed.results, load_seen(file).seen), load_seen(file).seen)

\* one run whose fetch returns the page
RunOnce ==
    /\ pc = "run"
    /\ runs < MaxRuns
    /\ runs' = runs + 1
    /\ RunOn(parse_afisha(doc, now_year))
    /\ UNCHANGED <<pc, text, month, out1, out2, doc, now_year, loc, fails>>

\* one run whose fetch fails: logged, nothing else touched
FetchFailed ==
    /\ pc = "run"
    /\ fails < MaxFails
    /\ fails' = fails + 1
    /\ UNCHANGED <<pc, text, month, out1, out2, doc, now_year, results, raised,
                   loc, dir_exists, file, arg, sent, runs, new_count>>

NextRun == RunOnce \/ FetchFailed

SpecRun == InitRun /\ [][NextRun]_vars

----------------------------------------------------------------------------
(* C1 *)

\* the new-event counts the claim gives r runs on a page of n events
ExpectedCounts(r, n) == [k \in 1..r |-> IF k = 1 THEN n ELSE 0]

\* C1: on an unchanged page and a store empty at the start, the first run
\* sends one message per extracted event and persists exactly their ids;
\* every later run computes no new event, sends nothing and leaves the
\* persisted set as it is.
C1_RunsOnUnchangedPage ==
    runs >= 1 =>
        /\ new_count = ExpectedCounts(runs, Len(parse_afisha(doc, now_year).results))
        /\ sent = Ids(parse_afisha(doc, now_year).results)
        /\ load_seen(file).seen = Range(Ids(parse_afisha(doc, now_year).results))

----------------------------------------------------------------------------
(* All scenarios together *)

Init == InitNorm \/ InitMonth \/ InitParse \/ InitKey \/ InitStore \/ InitRun

Next == NextNorm \/ NextMonth \/ NextParse \/ NextStore \/ NextRun

Spec == Init /\ [][Next]_vars

====
